---- MODULE Spec2Model ----
(***************************************************************************)
(* Model of the Kademlia routing table of discovery/src/kademlia/          *)
(* routing_table.rs: RoutingTable, Bucket and ContactWithDistance.         *)
(* NodeId and Contact live in sibling modules of the crate (contact.rs,    *)
(* mod.rs); their distance function and ordering are modelled from the     *)
(* specification and from the unit tests of routing_table.rs.              *)
(***************************************************************************)
EXTENDS Integers, Sequences, FiniteSets, TLC

\* ---- bounds of the model ----
MaxId == 3
NumAddrs == 2
MaxBucketSize == 2
MaxLimit == 3

NodeId == 0..MaxId
SocketAddr == 1..NumAddrs
Contact == [id : NodeId, addr : SocketAddr]

\* Option<T> is a sequence of length at most one.
None == <<>>
Some(x) == <<x>>

Min(a, b) == IF a < b THEN a ELSE b

\* ---- NodeId / Contact (contact.rs) ----
RECURSIVE Xor(_, _)
Xor(a, b) ==
    IF a = 0 THEN b
    ELSE IF b = 0 THEN a
    ELSE (((a % 2) + (b % 2)) % 2) + 2 * Xor(a \div 2, b \div 2)

\* number of significant bits: 1-based index of the highest set bit, 0 for 0
RECURSIVE BitLen(_)
BitLen(n) == IF n = 0 THEN 0 ELSE 1 + BitLen(n \div 2)

log2_distance(a, b) == BitLen(Xor(a, b))

\* derived Ord of Contact: identifier, then address
Contact_lt(x, y) == x.id < y.id \/ (x.id = y.id /\ x.addr < y.addr)

\* ---- ContactWithDistance ----
ContactWithDistance(contact, target) ==
    [distance |-> log2_distance(contact.id, target), contact |-> contact]

\* variant: orders by contact alone, the distance field being ignored
ContactWithDistance_lt_by_contact(x, y) == Contact_lt(x.contact, y.contact)

\* derived Ord of ContactWithDistance: distance, then contact
ContactWithDistance_lt(x, y) ==
    x.distance < y.distance
    \/ (x.distance = y.distance /\ Contact_lt(x.contact, y.contact))

\* ---- Bucket ----
Bucket_new(size) == [contacts |-> <<>>, bucket_size |-> size]

\* variant: signals at capacity instead of over capacity (>= for >)
head_if_full_at_capacity(bucket) ==
    IF Len(bucket.contacts) >= bucket.bucket_size /\ Len(bucket.contacts) > 0
    THEN Some(Head(bucket.contacts))
    ELSE None

\* variant: signals one contact late (over bucket_size + 1)
head_if_full_late(bucket) ==
    IF Len(bucket.contacts) > bucket.bucket_size + 1
    THEN Some(Head(bucket.contacts))
    ELSE None

head_if_full(bucket) ==
    IF Len(bucket.contacts) > bucket.bucket_size
    THEN Some(Head(bucket.contacts))
    ELSE None

\* variant: compares the addresses with == instead of !=
Bucket_conflicts_same_addr(bucket, contact) ==
    \E i \in 1..Len(bucket.contacts) :
        /\ bucket.contacts[i].id = contact.id
        /\ bucket.contacts[i].addr = contact.addr

Bucket_conflicts(bucket, contact) ==
    \E i \in 1..Len(bucket.contacts) :
        /\ bucket.contacts[i].id = contact.id
        /\ bucket.contacts[i].addr # contact.addr

Bucket_contains(bucket, contact) ==
    \E i \in 1..Len(bucket.contacts) : bucket.contacts[i] = contact

Bucket_is_empty(bucket) == Len(bucket.contacts) = 0

\* variant: retain() that keeps every contact, so nothing is removed
Bucket_remove_contact_keeps_all(bucket, contact) ==
    [bucket EXCEPT !.contacts = SelectSeq(@, LAMBDA old : TRUE)]

\* variant: compares identifiers only, so another address of the identifier goes too
Bucket_remove_contact_by_id(bucket, contact) ==
    [bucket EXCEPT !.contacts = SelectSeq(@, LAMBDA old : old.id # contact.id)]

\* the bucket after Bucket::remove_contact; its return value is head_if_full of it
Bucket_remove_contact(bucket, contact) ==
    [bucket EXCEPT !.contacts = SelectSeq(@, LAMBDA old : old # contact)]

\* variant: a known contact is left where it is instead of being moved to the back
Bucket_touch_contact_in_place(bucket, contact) ==
    IF Bucket_contains(bucket, contact) THEN bucket
    ELSE IF ~Bucket_conflicts(bucket, contact)
         THEN [bucket EXCEPT !.contacts = Append(@, contact)]
         ELSE bucket

\* variant: drops the front member when the bucket goes over bucket_size
Bucket_touch_contact_evicting(bucket, contact) ==
    LET removed == Bucket_remove_contact(bucket, contact)
        pushed == IF ~Bucket_conflicts(removed, contact)
                  THEN [removed EXCEPT !.contacts = Append(@, contact)]
                  ELSE removed
    IN  IF Len(pushed.contacts) > pushed.bucket_size
        THEN [pushed EXCEPT !.contacts = Tail(@)]
        ELSE pushed

\* variant: push_front for push_back
Bucket_touch_contact_push_front(bucket, contact) ==
    LET removed == Bucket_remove_contact(bucket, contact)
    IN  IF ~Bucket_conflicts(removed, contact)
        THEN [removed EXCEPT !.contacts = <<contact>> \o @]
        ELSE removed

\* variant: appends without asking conflicts()
Bucket_touch_contact_unchecked(bucket, contact) ==
    [Bucket_remove_contact(bucket, contact) EXCEPT !.contacts = Append(@, contact)]

\* the bucket after Bucket::touch_contact; its return value is head_if_full of it
Bucket_touch_contact(bucket, contact) ==
    LET removed == Bucket_remove_contact(bucket, contact)
    IN  IF ~Bucket_conflicts(removed, contact)
        THEN [removed EXCEPT !.contacts = Append(@, contact)]
        ELSE removed

\* variant: retain() with the test inverted (== for !=)
Bucket_remove_address_inverted(bucket, address) ==
    [bucket EXCEPT !.contacts = SelectSeq(@, LAMBDA c : c.addr = address)]

Bucket_remove_address(bucket, address) ==
    [bucket EXCEPT !.contacts = SelectSeq(@, LAMBDA c : c.addr # address)]

\* ---- RoutingTable ----
VARIABLES
    local_id,      \* RoutingTable.local_id
    bucket_size,   \* RoutingTable.bucket_size
    buckets,       \* RoutingTable.buckets: distance class -> Bucket (sparse map)
    op,            \* the last operation called on the table
    arg,           \* its arguments
    ret,           \* its return value
    before,        \* RoutingTable.buckets when the last operation was called
    touched        \* history: the contacts whose last accepted touch_contact was not
                   \* followed by their removal, in the order of that touch, oldest first

vars == <<local_id, bucket_size, buckets, op, arg, ret, before, touched>>

NoArg == [contact |-> [id |-> 0, addr |-> 0], address |-> 0, target |-> 0, limit |-> 0]

add_bucket(bks, index) ==
    IF index \in DOMAIN bks THEN bks ELSE bks @@ (index :> Bucket_new(bucket_size))

\* variant: without the `index == 0` early return
touch_contact_no_self_check(bks, contact) ==
    LET index == log2_distance(contact.id, local_id)
        added == add_bucket(bks, index)
        bucket == Bucket_touch_contact(added[index], contact)
    IN  [buckets |-> [added EXCEPT ![index] = bucket], ret |-> head_if_full(bucket)]

\* RoutingTable::touch_contact: the bucket map afterwards and the value returned
touch_contact(bks, contact) ==
    LET index == log2_distance(contact.id, local_id)
    IN  IF index = 0
        THEN [buckets |-> bks, ret |-> None]
        ELSE LET added == add_bucket(bks, index)
                 bucket == Bucket_touch_contact(added[index], contact)
             IN  [buckets |-> [added EXCEPT ![index] = bucket],
                  ret |-> head_if_full(bucket)]

\* RoutingTable::remove_contact: the bucket map afterwards and the value returned
remove_contact(bks, contact) ==
    LET index == log2_distance(contact.id, local_id)
    IN  IF index = 0
        THEN [buckets |-> bks, ret |-> None]
        ELSE IF index \in DOMAIN bks
        THEN LET bucket == Bucket_remove_contact(bks[index], contact)
             IN  [buckets |-> [bks EXCEPT ![index] = bucket],
                  ret |-> head_if_full(bucket)]
        ELSE [buckets |-> bks, ret |-> None]

remove_address(bks, address) ==
    [d \in DOMAIN bks |-> Bucket_remove_address(bks[d], address)]

cleanup(bks) ==
    [d \in {k \in DOMAIN bks : ~Bucket_is_empty(bks[k])} |-> bks[d]]

contains(bks, contact) ==
    LET index == log2_distance(contact.id, local_id)
    IN  IF index = 0 THEN FALSE
        ELSE IF index \in DOMAIN bks THEN Bucket_contains(bks[index], contact)
        ELSE FALSE

\* variant: distance 0 answered like contains() does, with false
conflicts_self_false(bks, contact) ==
    LET index == log2_distance(contact.id, local_id)
    IN  IF index = 0 THEN FALSE
        ELSE IF index \in DOMAIN bks THEN Bucket_conflicts(bks[index], contact)
        ELSE FALSE

conflicts(bks, contact) ==
    LET index == log2_distance(contact.id, local_id)
    IN  IF index = 0 THEN TRUE
        ELSE IF index \in DOMAIN bks THEN Bucket_conflicts(bks[index], contact)
        ELSE FALSE

distances(bks) == DOMAIN bks

get_contacts_with_distance(bks, distance) ==
    IF distance \in DOMAIN bks THEN bks[distance].contacts ELSE <<>>

RECURSIVE SumLen(_, _)
SumLen(bks, ks) ==
    IF ks = {} THEN 0
    ELSE LET k == CHOOSE x \in ks : TRUE
         IN  Len(bks[k].contacts) + SumLen(bks, ks \ {k})

len(bks) == SumLen(bks, DOMAIN bks)

\* variant: when full, an item as far as the current maximum is dropped too (<= for <)
visit_contact_drops_ties(st, contact, target) ==
    IF target = contact.id THEN st
    ELSE LET item == ContactWithDistance(contact, target)
         IN  IF st.max_distance <= item.distance
             THEN IF bucket_size <= Cardinality(st.result)
                  THEN st
                  ELSE [result |-> st.result \cup {item}, max_distance |-> item.distance]
             ELSE [st EXCEPT !.result = @ \cup {item}]

\* variant: the fullness test off by one, a farther item is dropped one early
visit_contact_full_one_early(st, contact, target) ==
    IF target = contact.id THEN st
    ELSE LET item == ContactWithDistance(contact, target)
         IN  IF st.max_distance < item.distance
             THEN IF bucket_size <= Cardinality(st.result) + 1
                  THEN st
                  ELSE [result |-> st.result \cup {item}, max_distance |-> item.distance]
             ELSE [st EXCEPT !.result = @ \cup {item}]

\* variant: the loop without the `target == contact.id()` skip
visit_contact_no_target_skip(st, contact, target) ==
    LET item == ContactWithDistance(contact, target)
    IN  IF st.max_distance < item.distance
        THEN IF bucket_size <= Cardinality(st.result)
             THEN st
             ELSE [result |-> st.result \cup {item}, max_distance |-> item.distance]
        ELSE [st EXCEPT !.result = @ \cup {item}]

\* one iteration of the inner loop of get_contacts_in_distance_order
visit_contact(st, contact, target) ==
    IF target = contact.id THEN st
    ELSE LET item == ContactWithDistance(contact, target)
         IN  IF st.max_distance < item.distance
             THEN IF bucket_size <= Cardinality(st.result)
                  THEN st
                  ELSE [result |-> st.result \cup {item}, max_distance |-> item.distance]
             ELSE [st EXCEPT !.result = @ \cup {item}]

\* variant: the index loop runs one short (0..bucket_size - 1)
scan_bucket_one_short(st, contacts, i, target) ==
    LET RECURSIVE go(_, _)
        go(acc, k) ==
            IF k >= bucket_size - 1 \/ k >= Len(contacts) THEN acc
            ELSE go(visit_contact(acc, contacts[k + 1], target), k + 1)
    IN  go(st, i)

\* for i in 0..self.bucket_size over bucket.contacts.get(i)
RECURSIVE scan_bucket(_, _, _, _)
scan_bucket(st, contacts, i, target) ==
    IF i >= bucket_size \/ i >= Len(contacts) THEN st
    ELSE scan_bucket(visit_contact(st, contacts[i + 1], target), contacts, i + 1, target)

\* for (_, bucket) in self.buckets.iter(), in the order the hash map yields them
RECURSIVE scan_buckets(_, _, _, _)
scan_buckets(st, bks, order, target) ==
    IF order = <<>> THEN st
    ELSE scan_buckets(scan_bucket(st, bks[Head(order)].contacts, 0, target),
                      bks, Tail(order), target)

get_contacts_in_distance_order(bks, order, target) ==
    scan_buckets([result |-> {}, max_distance |-> 0], bks, order, target).result

\* iteration of a BTreeSet<ContactWithDistance>: ascending
RECURSIVE into_iter(_)
into_iter(set) ==
    IF set = {} THEN <<>>
    ELSE LET m == CHOOSE x \in set : \A y \in set \ {x} : ContactWithDistance_lt(x, y)
         IN  <<m>> \o into_iter(set \ {m})

\* variant: take(result_limit) without the cap by bucket_size
get_closest_contacts_uncapped(bks, order, target, result_limit) ==
    LET items == into_iter(get_contacts_in_distance_order(bks, order, target))
        n == Min(result_limit, Len(items))
    IN  [i \in 1..n |-> items[i].contact]

get_closest_contacts(bks, order, target, result_limit) ==
    LET items == into_iter(get_contacts_in_distance_order(bks, order, target))
        n == Min(Min(result_limit, bucket_size), Len(items))
    IN  [i \in 1..n |-> items[i].contact]

\* the two debug assertions of get_closest_contacts hold for every returned item
debug_asserts_hold(result, target) ==
    \A i \in 1..Len(result) : target # result[i].id /\ local_id # result[i].id

\* the orders in which HashMap::iter can yield the keys of the bucket map
IterOrders(bks) ==
    LET n == Cardinality(DOMAIN bks)
    IN  {s \in [1..n -> DOMAIN bks] : \A i, j \in 1..n : i # j => s[i] # s[j]}

Init ==
    /\ local_id \in NodeId
    /\ bucket_size \in 0..MaxBucketSize
    /\ buckets = <<>>
    /\ op = "new"
    /\ arg = NoArg
    /\ ret = None
    /\ before = <<>>
    /\ touched = <<>>

TouchContact(contact) ==
    /\ buckets' = touch_contact(buckets, contact).buckets
    /\ ret' = touch_contact(buckets, contact).ret
    /\ op' = "touch_contact"
    /\ arg' = [NoArg EXCEPT !.contact = contact]
    /\ before' = buckets
    /\ touched' = IF conflicts(buckets, contact)
                  THEN touched
                  ELSE Append(SelectSeq(touched, LAMBDA x : x # contact), contact)
    /\ UNCHANGED <<local_id, bucket_size>>

RemoveContact(contact) ==
    /\ buckets' = remove_contact(buckets, contact).buckets
    /\ ret' = remove_contact(buckets, contact).ret
    /\ op' = "remove_contact"
    /\ arg' = [NoArg EXCEPT !.contact = contact]
    /\ before' = buckets
    /\ touched' = SelectSeq(touched, LAMBDA x : x # contact)
    /\ UNCHANGED <<local_id, bucket_size>>

RemoveAddress(address) ==
    /\ buckets' = remove_address(buckets, address)
    /\ ret' = None
    /\ op' = "remove_address"
    /\ arg' = [NoArg EXCEPT !.address = address]
    /\ before' = buckets
    /\ touched' = SelectSeq(touched, LAMBDA x : x.addr # address)
    /\ UNCHANGED <<local_id, bucket_size>>

Cleanup ==
    /\ buckets' = cleanup(buckets)
    /\ ret' = None
    /\ op' = "cleanup"
    /\ arg' = NoArg
    /\ before' = buckets
    /\ UNCHANGED <<local_id, bucket_size, touched>>

GetClosestContacts(target, result_limit) ==
    /\ \E order \in IterOrders(buckets) :
           ret' = get_closest_contacts(buckets, order, target, result_limit)
    /\ op' = "get_closest_contacts"
    /\ arg' = [NoArg EXCEPT !.target = target, !.limit = result_limit]
    /\ before' = buckets
    /\ UNCHANGED <<local_id, bucket_size, buckets, touched>>

Next ==
    \/ \E contact \in Contact : TouchContact(contact)
    \/ \E contact \in Contact : RemoveContact(contact)
    \/ \E address \in SocketAddr : RemoveAddress(address)
    \/ Cleanup
    \/ \E target \in NodeId, result_limit \in 0..MaxLimit :
           GetClosestContacts(target, result_limit)

Spec == Init /\ [][Next]_vars

\* ---- the table driven by a caller that follows the two-phase eviction protocol ----
\* the last call was a touch_contact that returned an eviction candidate
Pending == op = "touch_contact" /\ ret # None

\* the caller's follow-up: remove_contact on the candidate just returned
FollowUpRemove == Pending /\ RemoveContact(ret[1])

ProtocolNext ==
    \/ ~Pending /\ \E contact \in Contact : TouchContact(contact)
    \/ ~Pending /\ \E contact \in Contact : RemoveContact(contact)
    \/ ~Pending /\ \E address \in SocketAddr : RemoveAddress(address)
    \/ ~Pending /\ Cleanup
    \/ ~Pending /\ \E target \in NodeId, result_limit \in 0..MaxLimit :
                       GetClosestContacts(target, result_limit)
    \/ FollowUpRemove

SpecProtocol == Init /\ [][ProtocolNext]_vars

\* ---- vocabulary of the properties ----
\* the contacts held in a bucket map
Members(bks) ==
    UNION {{bks[d].contacts[i] : i \in 1..Len(bks[d].contacts)} : d \in DOMAIN bks}

\* every result get_closest_contacts can give on a bucket map for a target, over
\* all limits and all iteration orders of the map
ClosestResults(bks, target) ==
    {get_closest_contacts(bks, order, target, l) : order \in IterOrders(bks), l \in 0..MaxLimit}

InSeq(x, seq) == \E i \in 1..Len(seq) : seq[i] = x

\* get_closest_contacts returns the contact for no target, limit and iteration order
NeverReturned(bks, contact) ==
    \A target \in NodeId : \A r \in ClosestResults(bks, target) : ~InSeq(contact, r)

\* the table held, before the call, another address for the identifier of contact
HeldOtherAddress(bks, contact) ==
    \E x \in Members(bks) : x.id = contact.id /\ x.addr # contact.addr

\* ---- C1 ----
\* C1: get_closest_contacts(target, limit) returns at most min(limit, bucket_size)
\* contacts, in every reachable table, for every target, limit and iteration order.
C1_BoundedQuerySize ==
    op = "get_closest_contacts" => Len(ret) <= Min(arg.limit, bucket_size)

\* a query whose ranked set outgrew bucket_size and whose limit exceeds bucket_size
C1_Witness ==
    /\ op = "get_closest_contacts"
    /\ bucket_size >= 1
    /\ arg.limit > bucket_size
    /\ Len(ret) = bucket_size
    /\ \E order \in IterOrders(buckets) :
           Cardinality(get_contacts_in_distance_order(buckets, order, arg.target)) > bucket_size

\* ---- C2 ----
\* C2: the table never holds a contact with the local identifier and never has a
\* bucket for distance class 0; get_closest_contacts(target, _) returns no contact
\* whose identifier is target or the local identifier (its debug assertions hold).
C2_ExcludesTargetAndSelf ==
    /\ \A c \in Members(buckets) : c.id # local_id
    /\ 0 \notin DOMAIN buckets
    /\ op = "get_closest_contacts" => debug_asserts_hold(ret, arg.target)

\* a non-empty answer to a query for a target the table holds a contact of
C2_Witness ==
    /\ op = "get_closest_contacts"
    /\ \E c \in Members(buckets) : c.id = arg.target
    /\ Len(ret) >= 1

\* ---- C3 ----
\* C3: no two contacts held anywhere in the table share an identifier (no second
\* address for an identifier, and no (identifier, address) pair twice).
C3_UniqueIdentifiers ==
    \A d, e \in DOMAIN buckets :
        \A i \in 1..Len(buckets[d].contacts), j \in 1..Len(buckets[e].contacts) :
            buckets[d].contacts[i].id = buckets[e].contacts[j].id => (d = e /\ i = j)

\* a known contact was touched again while its bucket holds another member
C3_Witness ==
    /\ op = "touch_contact"
    /\ contains(before, arg.contact)
    /\ Len(get_contacts_with_distance(buckets, log2_distance(arg.contact.id, local_id))) >= 2

\* ---- C4 ----
\* C4: when the table holds (i, a) and c = (i, a') with a' # a is touched,
\* conflicts(c) was true before the call, the bucket map is unchanged by it (same
\* contacts in the same positions), contains(c) is false afterwards and
\* get_closest_contacts never returns c.
C4_ConflictRejection ==
    (op = "touch_contact" /\ HeldOtherAddress(before, arg.contact)) =>
        /\ conflicts(before, arg.contact)
        /\ buckets = before
        /\ ~contains(buckets, arg.contact)
        /\ NeverReturned(buckets, arg.contact)

\* a conflicting touch on a bucket of two, the older binding being at the front
C4_Witness ==
    /\ op = "touch_contact"
    /\ HeldOtherAddress(before, arg.contact)
    /\ LET cs == get_contacts_with_distance(before, log2_distance(arg.contact.id, local_id))
       IN  Len(cs) >= 2 /\ cs[1].id = arg.contact.id

\* ---- C5 ----
\* C5: touch_contact(c) and remove_contact(c) return an eviction candidate iff the
\* bucket of c's distance class holds more than bucket_size contacts after the
\* call; the candidate is the front member of that bucket and is still in the table.
C5_EvictionCandidate ==
    op \in {"touch_contact", "remove_contact"} =>
        LET cs == get_contacts_with_distance(buckets, log2_distance(arg.contact.id, local_id))
        IN  /\ (ret # None) <=> (Len(cs) > bucket_size)
            /\ ret # None => (ret = Some(cs[1]) /\ contains(buckets, cs[1]))

\* a touch over capacity that names another, older contact as the candidate
C5_Witness ==
    /\ op = "touch_contact"
    /\ bucket_size >= 1
    /\ ret # None
    /\ ret # Some(arg.contact)

\* the identifiers of a distance class of the local identifier
ClassIds(d) == {i \in NodeId : log2_distance(i, local_id) = d}

\* a sequence without the elements equal to x
Without(seq, x) == SelectSeq(seq, LAMBDA y : y # x)

\* ---- C6 ----
\* C6 as stated: every bucket has at most bucket_size + 1 members.
C6_AtMostOneOverCapacity ==
    \A d \in DOMAIN buckets : Len(buckets[d].contacts) <= bucket_size + 1

\* C6 (amended): a bucket is not bounded by bucket_size + 1. touch_contact never
\* evicts: a touch of a new, non-conflicting contact makes its bucket one longer
\* whatever its size; a bucket holds at most one contact per identifier of its
\* distance class, and is bounded only by the number of those identifiers.
C6_BoundedByClass ==
    /\ \A d \in DOMAIN buckets : Len(buckets[d].contacts) <= Cardinality(ClassIds(d))
    /\ (/\ op = "touch_contact"
        /\ ~contains(before, arg.contact)
        /\ ~conflicts(before, arg.contact)) =>
           LET d == log2_distance(arg.contact.id, local_id)
           IN  Len(buckets[d].contacts) = Len(get_contacts_with_distance(before, d)) + 1

\* a touch of a new contact that leaves its bucket two or more over bucket_size
C6_Witness ==
    /\ op = "touch_contact"
    /\ ~contains(before, arg.contact)
    /\ LET d == log2_distance(arg.contact.id, local_id)
       IN  /\ d \in DOMAIN buckets
           /\ Len(buckets[d].contacts) >= bucket_size + 2
           /\ contains(buckets, arg.contact)

\* ---- C7 ----
\* C7: touching a contact c the table already holds leaves len() and the set of
\* contacts unchanged, makes c the last member of its bucket, keeps the relative
\* order of the other members and the other buckets, and touching c once more
\* gives the same table.
C7_IdempotentTouch ==
    (op = "touch_contact" /\ contains(before, arg.contact)) =>
        LET c == arg.contact
            d == log2_distance(c.id, local_id)
        IN  /\ len(buckets) = len(before)
            /\ Members(buckets) = Members(before)
            /\ DOMAIN buckets = DOMAIN before
            /\ buckets[d].contacts[Len(buckets[d].contacts)] = c
            /\ Without(buckets[d].contacts, c) = Without(before[d].contacts, c)
            /\ \A e \in DOMAIN before \ {d} : buckets[e] = before[e]
            /\ touch_contact(buckets, c).buckets = buckets

\* a known contact that was not last in its bucket was touched
C7_Witness ==
    /\ op = "touch_contact"
    /\ contains(before, arg.contact)
    /\ LET cs == before[log2_distance(arg.contact.id, local_id)].contacts
       IN  Len(cs) >= 2 /\ cs[Len(cs)] # arg.contact
    /\ buckets # before

\* ---- C8 ----
\* C8: after remove_contact(c), contains(c) is false, get_closest_contacts never
\* returns c, no bucket is created or dropped, and every bucket holds its other
\* contacts in the same order; removing an absent contact changes nothing.
C8_RemovalCorrectness ==
    op = "remove_contact" =>
        LET c == arg.contact
        IN  /\ ~contains(buckets, c)
            /\ NeverReturned(buckets, c)
            /\ DOMAIN buckets = DOMAIN before
            /\ \A d \in DOMAIN before :
                   buckets[d].contacts = Without(before[d].contacts, c)
            /\ \A x \in Members(before) \ {c} : contains(buckets, x)
            /\ ~contains(before, c) => buckets = before

\* a held contact was removed from a bucket that keeps another member
C8_Witness ==
    /\ op = "remove_contact"
    /\ contains(before, arg.contact)
    /\ Len(get_contacts_with_distance(buckets, log2_distance(arg.contact.id, local_id))) >= 1

\* ---- C9 ----
\* C9: after remove_address(addr) no contact of any bucket has address addr, and
\* every bucket holds its contacts of other addresses in the same order.
C9_AddressScopedRemoval ==
    op = "remove_address" =>
        /\ \A x \in Members(buckets) : x.addr # arg.address
        /\ DOMAIN buckets = DOMAIN before
        /\ \A d \in DOMAIN before :
               buckets[d].contacts =
                   SelectSeq(before[d].contacts, LAMBDA x : x.addr # arg.address)
        /\ \A x \in Members(before) : x.addr # arg.address => contains(buckets, x)

\* the address was held under identifiers of two buckets, one of which keeps a
\* contact of another address
C9_Witness ==
    /\ op = "remove_address"
    /\ \E d, e \in DOMAIN before :
           /\ d # e
           /\ \E i \in 1..Len(before[d].contacts) : before[d].contacts[i].addr = arg.address
           /\ \E i \in 1..Len(before[e].contacts) : before[e].contacts[i].addr = arg.address
           /\ Len(buckets[d].contacts) >= 1

\* ---- C10 ----
\* C10: the result of get_closest_contacts(target, limit) is sorted by ascending
\* log2 distance to target, contacts at equal distance in the order of Contact.
C10_SortedByDistance ==
    op = "get_closest_contacts" =>
        \A i, j \in 1..Len(ret) :
            i < j =>
                LET di == log2_distance(ret[i].id, arg.target)
                    dj == log2_distance(ret[j].id, arg.target)
                IN  di <= dj /\ (di = dj => Contact_lt(ret[i], ret[j]))

\* two contacts returned closest first, against the order of their identifiers
C10_Witness ==
    /\ op = "get_closest_contacts"
    /\ Len(ret) = 2
    /\ log2_distance(ret[1].id, arg.target) < log2_distance(ret[2].id, arg.target)
    /\ ret[1].id > ret[2].id

\* the contacts the scan of get_contacts_in_distance_order looks at: those of the
\* first bucket_size members of each bucket whose identifier is not target
Candidates(bks, target) ==
    UNION {{bks[d].contacts[i] : i \in {k \in 1..Len(bks[d].contacts) :
                                          k <= bucket_size /\ bks[d].contacts[k].id # target}}
           : d \in DOMAIN bks}

\* the contacts held whose identifier is not target
NonTarget(bks, target) == {c \in Members(bks) : c.id # target}

\* ---- C11 ----
\* C11 as stated: when the table holds at least min(limit, bucket_size) contacts
\* whose identifier differs from target, get_closest_contacts(target, limit)
\* returns exactly min(limit, bucket_size) contacts.
C11_ExactSizeOverTable ==
    (/\ op = "get_closest_contacts"
     /\ Cardinality(NonTarget(buckets, arg.target)) >= Min(arg.limit, bucket_size)) =>
        Len(ret) = Min(arg.limit, bucket_size)

\* C11 (amended): get_closest_contacts(target, limit) returns exactly
\* min(limit, bucket_size, number of candidates) contacts, the candidates being the
\* contacts among the first bucket_size members of each bucket whose identifier
\* differs from target; so it returns min(limit, bucket_size) whenever that many
\* candidates exist, in particular when no bucket holds more than bucket_size.
C11_ExactSizeOverCandidates ==
    op = "get_closest_contacts" =>
        /\ Len(ret) = Min(Min(arg.limit, bucket_size),
                          Cardinality(Candidates(buckets, arg.target)))
        /\ (\A d \in DOMAIN buckets : Len(buckets[d].contacts) <= bucket_size) =>
               Candidates(buckets, arg.target) = NonTarget(buckets, arg.target)

\* a query answered in full (limit below bucket_size) from more candidates than
\* asked for, spread over two buckets
C11_Witness ==
    /\ op = "get_closest_contacts"
    /\ arg.limit >= 1
    /\ arg.limit < bucket_size
    /\ Len(ret) = arg.limit
    /\ Cardinality(Candidates(buckets, arg.target)) > arg.limit
    /\ Cardinality(DOMAIN buckets) >= 2

\* ---- C12 ----
\* C12 as stated: every contact held in the table whose identifier differs from
\* target and that is not in the result is at least as far from target as every
\* contact in the result.
C12_ClosestOfTable ==
    op = "get_closest_contacts" =>
        \A x \in NonTarget(buckets, arg.target) :
            ~InSeq(x, ret) =>
                \A i \in 1..Len(ret) :
                    log2_distance(ret[i].id, arg.target) <= log2_distance(x.id, arg.target)

\* C12 (amended): every candidate (a contact among the first bucket_size members
\* of its bucket whose identifier differs from target) that is not in the result
\* is at least as far from target as every contact in the result, and the result
\* holds candidates only; a contact behind the first bucket_size members of its
\* bucket is never returned, however close it is.
C12_ClosestOfCandidates ==
    op = "get_closest_contacts" =>
        /\ \A i \in 1..Len(ret) : ret[i] \in Candidates(buckets, arg.target)
        /\ \A x \in Candidates(buckets, arg.target) :
               ~InSeq(x, ret) =>
                   \A i \in 1..Len(ret) :
                       log2_distance(ret[i].id, arg.target) <= log2_distance(x.id, arg.target)

\* an answer that leaves out a strictly farther candidate
C12_Witness ==
    /\ op = "get_closest_contacts"
    /\ Len(ret) >= 1
    /\ \E x \in Candidates(buckets, arg.target) :
           /\ ~InSeq(x, ret)
           /\ log2_distance(ret[Len(ret)].id, arg.target) < log2_distance(x.id, arg.target)

\* ---- C13 ----
\* C13: conflicts(c) is true exactly when c's distance to the local identifier is
\* 0 or the table holds a contact with c's identifier and another address; it is
\* false for every contact the table contains.
C13_ConflictsExactly ==
    \A c \in Contact :
        /\ conflicts(buckets, c) <=>
               (log2_distance(c.id, local_id) = 0 \/ HeldOtherAddress(buckets, c))
        /\ contains(buckets, c) => ~conflicts(buckets, c)

\* a table on which conflicts() gives both answers for one identifier of a bucket
\* of two, and false for an identifier that is not held
C13_Witness ==
    /\ \E c \in Members(buckets) :
           /\ ~conflicts(buckets, c)
           /\ \E a \in SocketAddr : a # c.addr /\ conflicts(buckets, [c EXCEPT !.addr = a])
           /\ Len(buckets[log2_distance(c.id, local_id)].contacts) >= 2
    /\ \E c \in Contact :
           /\ log2_distance(c.id, local_id) # 0
           /\ \A x \in Members(buckets) : x.id # c.id
           /\ ~conflicts(buckets, c)

\* ---- C14 ----
\* C14: every distance class returned by distances() has at least one contact,
\* and every class with at least one contact is returned, in every reachable state.
C14_DistancesPopulated ==
    /\ \A d \in distances(buckets) : Len(get_contacts_with_distance(buckets, d)) >= 1
    /\ \A c \in Members(buckets) : log2_distance(c.id, local_id) \in distances(buckets)

\* ---- C15 ----
\* C15: cleanup() leaves no empty bucket, leaves every non-empty bucket and its
\* order unchanged, and leaves the results of contains, conflicts, len,
\* get_contacts_with_distance, get_closest_contacts and distances as they were.
C15_CleanupPreservesQueries ==
    op = "cleanup" =>
        /\ \A d \in DOMAIN buckets : ~Bucket_is_empty(buckets[d])
        /\ \A d \in DOMAIN before :
               ~Bucket_is_empty(before[d]) => (d \in DOMAIN buckets /\ buckets[d] = before[d])
        /\ \A c \in Contact :
               /\ contains(buckets, c) = contains(before, c)
               /\ conflicts(buckets, c) = conflicts(before, c)
        /\ len(buckets) = len(before)
        /\ \A d \in 0..(MaxId + 1) :
               get_contacts_with_distance(buckets, d) = get_contacts_with_distance(before, d)
        /\ \A target \in NodeId : ClosestResults(buckets, target) = ClosestResults(before, target)
        /\ distances(buckets) = distances(before)

\* ---- C16 ----
\* C16 (under SpecProtocol): when the caller removes every eviction candidate
\* that touch_contact returns before it touches again, every bucket holds at most
\* bucket_size + 1 contacts at all times, and at most bucket_size contacts
\* whenever no candidate is outstanding, so after each follow-up remove.
C16_TwoPhaseEviction ==
    /\ \A d \in DOMAIN buckets : Len(buckets[d].contacts) <= bucket_size + 1
    /\ ~Pending => \A d \in DOMAIN buckets : Len(buckets[d].contacts) <= bucket_size

\* a follow-up remove that brought a bucket of bucket_size + 1 back to bucket_size
C16_Witness ==
    /\ op = "remove_contact"
    /\ bucket_size >= 1
    /\ LET d == log2_distance(arg.contact.id, local_id)
       IN  /\ d \in DOMAIN before
           /\ Len(before[d].contacts) = bucket_size + 1
           /\ Head(before[d].contacts) = arg.contact
           /\ Len(buckets[d].contacts) = bucket_size

\* the contacts of a distance class in the order of their last accepted touch
TouchedInClass(d) == SelectSeq(touched, LAMBDA x : log2_distance(x.id, local_id) = d)

\* ---- C17 ----
\* C17: the members of each bucket are listed in the order of their most recent
\* accepted touch_contact, oldest first (a rejected touch and the removal of
\* other contacts do not change that order), and an eviction candidate returned
\* by touch_contact or remove_contact is the member of that bucket whose last
\* accepted touch is the oldest.
C17_RecencyOrder ==
    /\ \A d \in DOMAIN buckets : get_contacts_with_distance(buckets, d) = TouchedInClass(d)
    /\ (op \in {"touch_contact", "remove_contact"} /\ ret # None) =>
           ret = Some(Head(TouchedInClass(log2_distance(arg.contact.id, local_id))))

\* the oldest member of a bucket was touched again and the candidate returned is
\* the member that became the oldest
C17_Witness ==
    /\ op = "touch_contact"
    /\ bucket_size >= 1
    /\ contains(before, arg.contact)
    /\ Head(before[log2_distance(arg.contact.id, local_id)].contacts) = arg.contact
    /\ ret # None
    /\ ret # Some(arg.contact)

\* the contacts of a set ranked by (distance to target, contact), ascending
RECURSIVE Ranked(_, _)
Ranked(cs, target) ==
    IF cs = {} THEN <<>>
    ELSE LET first == CHOOSE x \in cs : \A y \in cs \ {x} :
                 \/ log2_distance(x.id, target) < log2_distance(y.id, target)
                 \/ /\ log2_distance(x.id, target) = log2_distance(y.id, target)
                    /\ Contact_lt(x, y)
         IN  <<first>> \o Ranked(cs \ {first}, target)

\* ---- C18 ----
\* C18: for every table, target, limit and iteration order of the bucket map,
\* get_closest_contacts(target, limit) is the first min(limit, bucket_size)
\* elements of the (distance to target, contact)-sorted candidates, the candidates
\* being those of the first bucket_size members of each bucket whose identifier
\* differs from target; so the answer does not depend on the iteration order.
C18_SkipDoesNotAffectAnswer ==
    op = "get_closest_contacts" =>
        LET ranked == Ranked(Candidates(buckets, arg.target), arg.target)
            n == Min(Min(arg.limit, bucket_size), Len(ranked))
        IN  /\ ret = SubSeq(ranked, 1, n)
            /\ \A order \in IterOrders(buckets) :
                   get_closest_contacts(buckets, order, arg.target, arg.limit) = ret

\* a query on a table where, for one iteration order, the scan skipped a candidate
\* (the ranked set holds fewer items than there are candidates)
C18_Witness ==
    /\ op = "get_closest_contacts"
    /\ bucket_size >= 1
    /\ Len(ret) = bucket_size
    /\ \E o1, o2 \in IterOrders(buckets) :
           /\ Cardinality(get_contacts_in_distance_order(buckets, o1, arg.target))
                  < Cardinality(Candidates(buckets, arg.target))
           /\ Cardinality(get_contacts_in_distance_order(buckets, o2, arg.target))
                  = Cardinality(Candidates(buckets, arg.target))

\* ---- C19 ----
\* C19: touch_contact(c) removes no contact but a previous exact copy of c: every
\* other contact stays in its bucket in the same relative order, the buckets of
\* other distance classes are unchanged, len() grows by at most 1, and a c of
\* non-zero distance that does not conflict is contained afterwards, also when
\* its bucket was already at or above bucket_size.
C19_TouchNeverEvicts ==
    op = "touch_contact" =>
        LET c == arg.contact
            d == log2_distance(c.id, local_id)
        IN  /\ \A e \in DOMAIN before :
                   /\ e \in DOMAIN buckets
                   /\ Without(buckets[e].contacts, c) = Without(before[e].contacts, c)
            /\ \A e \in DOMAIN before \ {d} : buckets[e] = before[e]
            /\ DOMAIN buckets \subseteq DOMAIN before \cup {d}
            /\ Members(before) \ {c} \subseteq Members(buckets)
            /\ len(buckets) <= len(before) + 1
            /\ (d # 0 /\ ~conflicts(before, c)) => contains(buckets, c)

\* a new contact was accepted into a bucket that was already at or above
\* bucket_size, and every older member is still there
C19_Witness ==
    /\ op = "touch_contact"
    /\ bucket_size >= 1
    /\ ~contains(before, arg.contact)
    /\ contains(buckets, arg.contact)
    /\ LET d == log2_distance(arg.contact.id, local_id)
       IN  /\ d \in DOMAIN before
           /\ Len(before[d].contacts) >= bucket_size
           /\ Len(buckets[d].contacts) = Len(before[d].contacts) + 1

\* ---- C20 ----
\* C20: for a contact c with the local identifier, touch_contact(c) and
\* remove_contact(c) return no candidate and leave the table unchanged (no bucket
\* created, len() and distances() the same), contains(c) is false and
\* conflicts(c) is true, in every reachable state.
C20_SelfIsNoOp ==
    /\ \A a \in SocketAddr :
           LET c == [id |-> local_id, addr |-> a]
           IN  /\ ~contains(buckets, c)
               /\ conflicts(buckets, c)
               /\ touch_contact(buckets, c) = [buckets |-> buckets, ret |-> None]
               /\ remove_contact(buckets, c) = [buckets |-> buckets, ret |-> None]
    /\ (op \in {"touch_contact", "remove_contact"} /\ arg.contact.id = local_id) =>
           /\ ret = None
           /\ buckets = before
           /\ len(buckets) = len(before)
           /\ distances(buckets) = distances(before)

\* the local identifier was touched on a table that holds contacts, one bucket
\* being over capacity
C20_Witness ==
    /\ op = "touch_contact"
    /\ arg.contact.id = local_id
    /\ \E d \in DOMAIN buckets : Len(buckets[d].contacts) > bucket_size
====
